---------------------------- MODULE Spec2Model ----------------------------
(***************************************************************************)
(* Signal-generation pipeline of the multis trading scanner:               *)
(*   indicator library  -> regime classifier -> confluence engine          *)
(*   -> risk validator & sizer -> scan pipeline (App.runPipeline).         *)
(*                                                                         *)
(* Numbers.  Prices, volumes, money and indicator values are fixed-point   *)
(* integers with Scale units per 1.0 (12000 is 120.00).  A JavaScript      *)
(* division x / n is the floor division x \div n; a ratio of two           *)
(* fixed-point values a / b is (a * Scale) \div b.  The risk validator's   *)
(* ratios are kept as exact fractions <<num, den>>.  The running averages  *)
(* of calculateEMA and calculateRSI are kept with Scale times finer units. *)
(*                                                                         *)
(* Indices.  Sequences are 1-based: TLA+ index i is JavaScript index i-1.  *)
(***************************************************************************)
EXTENDS Integers, Sequences, FiniteSets, TLC

VARIABLES
    args,               \* arguments of the call of a function specification
    ret,                \* its return value, None before the call; of the async
                        \* fetchKlines the promise with the frame of the call
    config,             \* AppConfig captured by runPipeline
    isRunning,          \* App state isRunning
    signals,            \* App state signals (history shown in the UI)
    pc,                 \* position of runPipeline
    symIdx,             \* index of the symbol of the for-loop over config.symbols
    tfIdx,              \* index of the timeframe of the for-loop over timeframes
    sigIdx,             \* index of the signal of the for-loop over strategyResults
    timeframes,         \* timeframes chosen by selectSmartTimeframes
    analysisData,       \* candles of the 15m baseline fetch
    klines,             \* candles analysed for the current timeframe
    strategyResults,    \* signals returned by runAllStrategies
    riskResult,         \* RiskResult whose signal is with the notifier
    success,            \* what sendTelegramSignal resolved to (line 119)
    detectedSignals     \* confirmed signals of the running scan

vars == <<args, ret, config, isRunning, signals, pc, symIdx, tfIdx, sigIdx,
          timeframes, analysisData, klines, strategyResults, riskResult,
          success, detectedSignals>>

pipelineVars == <<config, isRunning, signals, pc, symIdx, tfIdx, sigIdx,
                  timeframes, analysisData, klines, strategyResults,
                  riskResult, success, detectedSignals>>

-----------------------------------------------------------------------------
(* Numeric conventions *)

Scale == 100

None == [none |-> TRUE]

Undefined == [undefined |-> TRUE]

Abs(x) == IF x < 0 THEN -x ELSE x

Max2(a, b) == IF a >= b THEN a ELSE b

Min2(a, b) == IF a <= b THEN a ELSE b

Max3(a, b, c) == Max2(a, Max2(b, c))

\* The array with the elements f[1], ..., f[Len(f)], as a sequence value
Array(f) == SubSeq(f, 1, Len(f))

RECURSIVE SumRange(_, _, _)
\* s[lo] + ... + s[hi]  (Array.reduce((a, b) => a + b, 0) over a slice)
SumRange(s, lo, hi) ==
    IF lo > hi THEN 0
    ELSE IF lo = hi THEN s[lo]
    ELSE LET mid == (lo + hi) \div 2
         IN  SumRange(s, lo, mid) + SumRange(s, mid + 1, hi)

RECURSIVE SqrtSearch(_, _, _)
SqrtSearch(n, lo, hi) ==
    IF lo >= hi THEN lo
    ELSE LET mid == (lo + hi + 1) \div 2
         IN  IF mid * mid <= n THEN SqrtSearch(n, mid, hi)
             ELSE SqrtSearch(n, lo, mid - 1)

\* Math.sqrt on a non-negative value, rounded down to the unit
Sqrt(n) == SqrtSearch(n, 0, Min2(n, 46340))

RECURSIVE GCD(_, _)
GCD(a, b) == IF b = 0 THEN a ELSE GCD(b, a % b)

\* The exact fraction n / d in lowest terms, d > 0
Frac(n, d) ==
    LET g == GCD(Abs(n), d)
    IN  IF g = 0 THEN <<0, 1>> ELSE <<n \div g, d \div g>>

FracLt(x, y) == x[1] * y[2] < y[1] * x[2]

\* Math.ceil
Ceil(x) == -((-x[1]) \div x[2])

\* x.toFixed(digits) of a non-negative fraction, in units of 10^-digits
\* (unit = 10^digits), rounding half up
ToFixed(x, unit) ==
    (x[1] \div x[2]) * unit + ((x[1] % x[2]) * unit * 2 + x[2]) \div (2 * x[2])

-----------------------------------------------------------------------------
(* Indicator library: strategyService.ts, timeframeService.ts *)

Closes(ks) == Array([i \in 1..Len(ks) |-> ks[i].close])

Volumes(ks) == Array([i \in 1..Len(ks) |-> ks[i].volume])

calculateSMA(data, period) ==
    [idx \in 1..Len(data) |->
        IF idx - 1 < period - 1 THEN 0
        ELSE SumRange(data, idx - period + 1, idx) \div period]

RECURSIVE EMALoop(_, _, _, _, _)
\* for (i = lo; i <= hi; i++) ema.push(data[i]*k + ema[i-1]*(1-k)) with
\* k = 2 / (period + 1).  The loops of this section split their range in
\* halves and finish the first half before the second starts, which keeps
\* the evaluation stack logarithmic in the length.
EMALoop(data, period, lo, hi, ema) ==
    IF lo > hi THEN ema
    ELSE IF lo = hi
    THEN Append(ema, (data[lo] * Scale * 2 + ema[lo - 1] * (period - 1))
                         \div (period + 1))
    ELSE LET mid == (lo + hi) \div 2
             left == EMALoop(data, period, lo, mid, ema)
         IN  IF Len(left) >= 0 THEN EMALoop(data, period, mid + 1, hi, left)
             ELSE left

\* The averages are in units of 1 / (Scale * Scale): two averages of the
\* same closes that converge must keep the order they have in the code.
calculateEMA(data, period) ==
    EMALoop(data, period, 2, Len(data),
            <<IF Len(data) = 0 THEN Undefined ELSE data[1] * Scale>>)

RECURSIVE RSISeedLoop(_, _, _, _)
\* first loop of calculateRSI over <<gains, losses>>; i is the 1-based
\* index of closes[i - 1] of the source
RSISeedLoop(closes, lo, hi, st) ==
    IF lo > hi THEN st
    ELSE IF lo = hi
    THEN LET diff == closes[lo + 1] - closes[lo]
         IN  IF diff >= 0 THEN <<st[1] + diff, st[2]>>
             ELSE <<st[1], st[2] - diff>>
    ELSE LET mid == (lo + hi) \div 2
             left == RSISeedLoop(closes, lo, mid, st)
         IN  IF Len(left) >= 0 THEN RSISeedLoop(closes, mid + 1, hi, left)
             ELSE left

RECURSIVE RSILoop(_, _, _, _, _)
\* second loop of calculateRSI over <<rsi, avgGain, avgLoss>>.  The two
\* averages are kept in units of 1 / (Scale * Scale): they decay by 13/14 a
\* bar and must not reach 0 unless the code's do.
RSILoop(closes, period, lo, hi, st) ==
    IF lo > hi THEN st
    ELSE IF lo = hi
    THEN LET diff == closes[lo] - closes[lo - 1]
             gain == IF diff >= 0 THEN diff ELSE 0
             loss == IF diff < 0 THEN -diff ELSE 0
             avgGain == (st[2] * (period - 1) + gain * Scale) \div period
             avgLoss == (st[3] * (period - 1) + loss * Scale) \div period
             rs == IF avgLoss = 0 THEN 100 * Scale
                   ELSE (avgGain * Scale) \div avgLoss
         IN  <<[st[1] EXCEPT
                  ![lo] = 100 * Scale - (100 * Scale * Scale) \div (Scale + rs)],
               avgGain, avgLoss>>
    ELSE LET mid == (lo + hi) \div 2
             left == RSILoop(closes, period, lo, mid, st)
         IN  IF Len(left) >= 0 THEN RSILoop(closes, period, mid + 1, hi, left)
             ELSE left

calculateRSI(closes, period) ==
    LET fill == Array([i \in 1..Len(closes) |-> 50 * Scale])
        seed == RSISeedLoop(closes, 1, Min2(period, Len(closes) - 1), <<0, 0>>)
    IN  RSILoop(closes, period, period + 2, Len(closes),
                <<fill, (seed[1] * Scale) \div period,
                  (seed[2] * Scale) \div period>>)[1]

RECURSIVE SumSqDev(_, _, _, _)
\* slice.reduce((a, b) => a + Math.pow(b - mean, 2), 0)
SumSqDev(s, mean, lo, hi) ==
    IF lo > hi THEN 0
    ELSE IF lo = hi THEN (s[lo] - mean) * (s[lo] - mean)
    ELSE LET mid == (lo + hi) \div 2
         IN  SumSqDev(s, mean, lo, mid) + SumSqDev(s, mean, mid + 1, hi)

calculateBollingerBands(closes, period, stdDev) ==
    [idx \in 1..Len(closes) |->
        IF idx - 1 < period - 1 THEN [middle |-> 0, upper |-> 0, lower |-> 0]
        ELSE LET lo == idx - period + 1
                 mean == SumRange(closes, lo, idx) \div period
                 variance == SumSqDev(closes, mean, lo, idx) \div period
                 sd == Sqrt(variance)
             IN  [middle |-> mean,
                  upper |-> mean + stdDev * sd,
                  lower |-> mean - stdDev * sd]]

TrueRanges(ks) ==
    Array([i \in 1..Len(ks) |->
             IF i = 1 THEN ks[i].high - ks[i].low
             ELSE Max3(ks[i].high - ks[i].low,
                       Abs(ks[i].high - ks[i - 1].close),
                       Abs(ks[i].low - ks[i - 1].close))])

RECURSIVE WilderLoop(_, _, _, _, _)
\* for (i = lo; i <= hi; i++) out[i] = (out[i-1]*(period-1) + xs[i]) / period
WilderLoop(xs, period, lo, hi, out) ==
    IF lo > hi THEN out
    ELSE IF lo = hi
    THEN [out EXCEPT ![lo] = (out[lo - 1] * (period - 1) + xs[lo]) \div period]
    ELSE LET mid == (lo + hi) \div 2
             left == WilderLoop(xs, period, lo, mid, out)
         IN  IF Len(left) >= 0 THEN WilderLoop(xs, period, mid + 1, hi, left)
             ELSE left

\* new Array(n).fill(0); out[period-1] = sum(xs.slice(0, period)) / period;
\* then the loop from period.  Assigning index period-1 of a shorter array
\* extends it to length period, the skipped indices being holes.
WilderAverage(xs, period) ==
    LET n == Len(xs)
        seed == SumRange(xs, 1, Min2(period, n)) \div period
        start == Array([i \in 1..Max2(n, period) |->
                          IF i = period THEN seed
                          ELSE IF i <= n THEN 0 ELSE Undefined])
    IN  WilderLoop(xs, period, period + 1, n, start)

calculateATR(ks, period) == WilderAverage(TrueRanges(ks), period)

\* x || 1 on a number: 1.0 replaces 0
OrOne(x) == IF x = 0 THEN Scale ELSE x

calculateADX(ks, period) ==
    LET n == Len(ks)
        upMove(i) == ks[i].high - ks[i - 1].high
        downMove(i) == ks[i - 1].low - ks[i].low
        plusDM == [i \in 1..n |->
                     IF i > 1 /\ upMove(i) > downMove(i) /\ upMove(i) > 0
                     THEN upMove(i) ELSE 0]
        minusDM == [i \in 1..n |->
                      IF i > 1 /\ downMove(i) > upMove(i) /\ downMove(i) > 0
                      THEN downMove(i) ELSE 0]
        atr == calculateATR(ks, period)
        plusDI == [i \in 1..n |-> 100 * ((plusDM[i] * Scale) \div OrOne(atr[i]))]
        minusDI == [i \in 1..n |-> 100 * ((minusDM[i] * Scale) \div OrOne(atr[i]))]
        dx == Array([i \in 1..n |->
                       LET sum == plusDI[i] + minusDI[i]
                           diff == Abs(plusDI[i] - minusDI[i])
                       IN  100 * ((diff * Scale) \div OrOne(sum))])
    IN  WilderAverage(dx, period)

-----------------------------------------------------------------------------
(* Regime classifier: timeframeService.ts *)

DefaultTimeframes == <<"15m", "1h">>

RangingTimeframes == <<"5m", "15m">>

TrendingTimeframes == <<"1h", "4h">>

\* the length check one bar too lenient
RegimeMinMutant == 50 - 1

RegimeMin == 50

\* the ranging pair chosen below 25
TimeframesForMutant(currentADX) ==
    IF currentADX < 25 * Scale THEN RangingTimeframes
    ELSE IF currentADX > 25 * Scale THEN TrendingTimeframes
    ELSE DefaultTimeframes

\* lines 70-77: the pair for the latest ADX value
TimeframesFor(currentADX) ==
    IF currentADX < 20 * Scale THEN RangingTimeframes
    ELSE IF currentADX > 25 * Scale THEN TrendingTimeframes
    ELSE DefaultTimeframes

\* >= in place of > in the ATR spike detection
selectSmartTimeframesMutant(ks) ==
    IF Len(ks) < RegimeMin
    THEN [timeframes |-> DefaultTimeframes, isVolatile |-> FALSE]
    ELSE LET adx == calculateADX(ks, 14)
             atr == calculateATR(ks, 14)
             currentADX == adx[Len(adx)]
             currentATR == atr[Len(atr)]
             sumATR == SumRange(atr, Max2(1, Len(atr) - 19), Len(atr))
             isVolatile == currentATR * 200 >= sumATR * 18
         IN  [timeframes |-> TimeframesFor(currentADX),
              isVolatile |-> isVolatile]

selectSmartTimeframes(ks) ==
    IF Len(ks) < RegimeMin
    THEN [timeframes |-> DefaultTimeframes, isVolatile |-> FALSE]
    ELSE LET adx == calculateADX(ks, 14)
             atr == calculateATR(ks, 14)
             currentADX == adx[Len(adx)]
             currentATR == atr[Len(atr)]
             \* atr.slice(-20).reduce(...) / 20, kept as the sum so that
             \* currentATR > avgATR * 1.8 is 20 * 10 * currentATR > 18 * sum
             sumATR == SumRange(atr, Max2(1, Len(atr) - 19), Len(atr))
             isVolatile == currentATR * 200 > sumATR * 18
         IN  [timeframes |-> TimeframesFor(currentADX),
              isVolatile |-> isVolatile]

-----------------------------------------------------------------------------
(* Confluence engine: strategyService.ts runAllStrategies *)

\* the history check one bar too lenient
HistoryMinMutant == 200 - 1

HistoryMin == 200

\* [ ... ].filter(s => s !== null)
FilterNonNull(s) == SelectSeq(s, LAMBDA x : x # "null")

emaScoreOf(closes) ==
    LET last == Len(closes)
        prev == last - 1
        ema9 == calculateEMA(closes, 9)
        ema21 == calculateEMA(closes, 21)
    IN  IF ema9[prev] <= ema21[prev] /\ ema9[last] > ema21[last] THEN 1
        ELSE IF ema9[prev] >= ema21[prev] /\ ema9[last] < ema21[last] THEN -1
        ELSE 0

rsiScoreOf(closes) ==
    LET rsi == calculateRSI(closes, 14)
        last == Len(closes)
    IN  IF rsi[last] < 30 * Scale THEN 1
        ELSE IF rsi[last] > 70 * Scale THEN -1
        ELSE 0

bbScoreOf(closes) ==
    LET bands == calculateBollingerBands(closes, 20, 2)
        last == Len(closes)
        prev == last - 1
    IN  IF closes[prev] < bands[prev].lower /\ closes[last] >= bands[last].lower
        THEN 1
        ELSE IF closes[prev] > bands[prev].upper
                /\ closes[last] <= bands[last].upper
        THEN -1
        ELSE 0

isUptrendOf(closes) ==
    closes[Len(closes)] > calculateSMA(closes, 200)[Len(closes)]

\* >= in place of > in the volume confirmation
isVolumeConfirmedOfMutant(volumes) ==
    volumes[Len(volumes)] >= calculateSMA(volumes, 20)[Len(volumes)]

isVolumeConfirmedOf(volumes) ==
    volumes[Len(volumes)] > calculateSMA(volumes, 20)[Len(volumes)]

\* the sign of the EMA vote forgotten
longSignalsOfMutant(emaScore, rsiScore, bbScore) ==
    FilterNonNull(<<IF emaScore # 0 THEN "EMA Cross" ELSE "null",
                    IF rsiScore = 1 THEN "RSI Oversold" ELSE "null",
                    IF bbScore = 1 THEN "BB Re-entry" ELSE "null">>)

longSignalsOf(emaScore, rsiScore, bbScore) ==
    FilterNonNull(<<IF emaScore = 1 THEN "EMA Cross" ELSE "null",
                    IF rsiScore = 1 THEN "RSI Oversold" ELSE "null",
                    IF bbScore = 1 THEN "BB Re-entry" ELSE "null">>)

shortSignalsOf(emaScore, rsiScore, bbScore) ==
    FilterNonNull(<<IF emaScore = -1 THEN "EMA Cross" ELSE "null",
                    IF rsiScore = -1 THEN "RSI Overbought" ELSE "null",
                    IF bbScore = -1 THEN "BB Re-entry" ELSE "null">>)

\* a single vote counted as confluence
ConfluenceMinMutant == 2 - 1

ConfluenceMin == 2

Rejection(msg, symbol, n, names) ==
    [msg |-> msg, symbol |-> symbol, n |-> n, names |-> names]

\* The if / else-if / else of lines 135-159: the direction decided and the
\* rejections pushed.
Confluence(symbol, longSignals, shortSignals, isUptrend, isVolumeConfirmed) ==
    IF Len(longSignals) >= ConfluenceMin THEN
        IF ~isUptrend THEN
            [finalDirection |-> "null", activeStrategies |-> <<>>,
             rejections |-> <<Rejection("LONG confluence rejected by SMA 200 trend filter",
                                        symbol, 0, longSignals)>>]
        ELSE IF ~isVolumeConfirmed THEN
            [finalDirection |-> "null", activeStrategies |-> <<>>,
             rejections |-> <<Rejection("LONG confluence rejected by Volume filter",
                                        symbol, 0, <<>>)>>]
        ELSE [finalDirection |-> "LONG", activeStrategies |-> longSignals,
              rejections |-> <<>>]
    ELSE IF Len(shortSignals) >= ConfluenceMin THEN
        IF isUptrend THEN
            [finalDirection |-> "null", activeStrategies |-> <<>>,
             rejections |-> <<Rejection("SHORT confluence rejected by SMA 200 trend filter",
                                        symbol, 0, shortSignals)>>]
        ELSE IF ~isVolumeConfirmed THEN
            [finalDirection |-> "null", activeStrategies |-> <<>>,
             rejections |-> <<Rejection("SHORT confluence rejected by Volume filter",
                                        symbol, 0, <<>>)>>]
        ELSE [finalDirection |-> "SHORT", activeStrategies |-> shortSignals,
              rejections |-> <<>>]
    ELSE LET activeAny == IF Len(longSignals) > 0 THEN longSignals
                          ELSE shortSignals
         IN  [finalDirection |-> "null", activeStrategies |-> <<>>,
              rejections |->
                 IF Len(activeAny) > 0
                 THEN <<Rejection("Low confluence", symbol, Len(activeAny), activeAny)>>
                 ELSE <<>>]

\* the target at the stop distance (1:1)
BuildSignalRatioMutant(symbol, timeframe, ks, finalDirection, activeStrategies, now) ==
    LET last == Len(ks)
        currentPrice == ks[last].close
        slDistance == calculateATR(ks, 14)[last] * 2
        tpDistance == slDistance
    IN  [symbol |-> symbol,
         timeframe |-> timeframe,
         strategyName |-> activeStrategies,
         direction |-> finalDirection,
         entry |-> currentPrice,
         stopLoss |-> IF finalDirection = "LONG" THEN currentPrice - slDistance
                      ELSE currentPrice + slDistance,
         takeProfit |-> IF finalDirection = "LONG" THEN currentPrice + tpDistance
                        ELSE currentPrice - tpDistance,
         timestamp |-> now,
         status |-> "PENDING"]

\* the timeframe label of the baseline in place of the call's
BuildSignalLabelMutant(symbol, timeframe, ks, finalDirection, activeStrategies, now) ==
    LET last == Len(ks)
        currentPrice == ks[last].close
        slDistance == calculateATR(ks, 14)[last] * 2
        tpDistance == slDistance * 2
    IN  [symbol |-> symbol,
         timeframe |-> "15m",
         strategyName |-> activeStrategies,
         direction |-> finalDirection,
         entry |-> currentPrice,
         stopLoss |-> IF finalDirection = "LONG" THEN currentPrice - slDistance
                      ELSE currentPrice + slDistance,
         takeProfit |-> IF finalDirection = "LONG" THEN currentPrice + tpDistance
                        ELSE currentPrice - tpDistance,
         timestamp |-> now,
         status |-> "PENDING"]

\* lines 161-180: the signal pushed for a decided direction
BuildSignal(symbol, timeframe, ks, finalDirection, activeStrategies, now) ==
    LET last == Len(ks)
        currentPrice == ks[last].close
        atr == calculateATR(ks, 14)
        currentATR == atr[last]
        slDistance == currentATR * 2
        tpDistance == slDistance * 2
    IN  [symbol |-> symbol,
         timeframe |-> timeframe,
         strategyName |-> activeStrategies,
         direction |-> finalDirection,
         entry |-> currentPrice,
         stopLoss |-> IF finalDirection = "LONG" THEN currentPrice - slDistance
                      ELSE currentPrice + slDistance,
         takeProfit |-> IF finalDirection = "LONG" THEN currentPrice + tpDistance
                        ELSE currentPrice - tpDistance,
         timestamp |-> now,
         status |-> "PENDING"]

\* now is the value Date.now() returns during the call
runAllStrategies(symbol, timeframe, ks, now) ==
    IF Len(ks) < HistoryMin THEN
        [signals |-> <<>>,
         rejections |-> <<Rejection("Insufficient history for SuperStrategy",
                                    "", Len(ks), <<>>)>>]
    ELSE LET closes == Closes(ks)
             volumes == Volumes(ks)
             emaScore == emaScoreOf(closes)
             rsiScore == rsiScoreOf(closes)
             bbScore == bbScoreOf(closes)
             c == Confluence(symbol,
                             longSignalsOf(emaScore, rsiScore, bbScore),
                             shortSignalsOf(emaScore, rsiScore, bbScore),
                             isUptrendOf(closes),
                             isVolumeConfirmedOf(volumes))
         IN  [signals |->
                 IF c.finalDirection # "null"
                 THEN <<BuildSignal(symbol, timeframe, ks, c.finalDirection,
                                    c.activeStrategies, now)>>
                 ELSE <<>>,
              rejections |-> c.rejections]

-----------------------------------------------------------------------------
(* Risk validator & sizer: applyRiskManagement returning a RiskResult.      *)
(* balance and riskPercent are fixed-point; maxLeverage and                 *)
(* suggestedLeverage are fixed-point multiples (Scale is 1x); positionSize  *)
(* is in millionths of an asset unit, the 6 decimals of toFixed(6).         *)

MaxRiskPercent == 5 * Scale

MinRewardRatio == 2

SizeUnit == 1000000

slDistanceOf(signal) == Abs(signal.entry - signal.stopLoss)

slPercentOf(signal) == Frac(slDistanceOf(signal), signal.entry)

tpDistanceOf(signal) == Abs(signal.takeProfit - signal.entry)

rrRatioOf(signal) == Frac(tpDistanceOf(signal), slDistanceOf(signal))

ZeroDistance(signal) == slDistanceOf(signal) = 0

StopTooTight(signal) == FracLt(slPercentOf(signal), <<1, 1000>>)

\* the upper bound of the stop distance not checked
StopTooWideMutant(signal) == FALSE

StopTooWide(signal) == FracLt(<<10, 100>>, slPercentOf(signal))

\* a ratio of exactly 2.0 rejected
RewardTooLowMutant(signal) ==
    ~FracLt(<<MinRewardRatio, 1>>, rrRatioOf(signal))

RewardTooLow(signal) == FracLt(rrRatioOf(signal), <<MinRewardRatio, 1>>)

ReasonZero == <<"Zero distance Stop Loss detected">>

ReasonTight == <<"Unsafe: SL distance too small (Market Noise)">>

ReasonWide == <<"Unsafe: SL distance too large (Extreme Volatility)">>

ReasonReward(signal) ==
    <<"Rejected: R/R Ratio too low (", ToFixed(rrRatioOf(signal), 100), " < 2.0)">>

\* the strategy label left out of the copy
SizeSignalCopyMutant(signal, balance, riskPercent, maxLeverage) ==
    LET entry == signal.entry
        slDistance == slDistanceOf(signal)
        effectiveRiskPercent == Min2(riskPercent, MaxRiskPercent)
        riskAmount == Frac(balance * effectiveRiskPercent, 100 * Scale)
        riskSize == Frac(riskAmount[1], riskAmount[2] * slDistance)
        positionValue == Frac(riskSize[1] * entry, riskSize[2])
        requiredLeverage == Frac(positionValue[1], positionValue[2] * balance)
        ceilLeverage == Ceil(requiredLeverage) * Scale
        clamp == ceilLeverage > maxLeverage
        positionSize == IF clamp THEN Frac(balance * maxLeverage, Scale * entry)
                        ELSE riskSize
        suggestedLeverage == Max2(1 * Scale,
                                  IF clamp THEN maxLeverage ELSE ceilLeverage)
    IN  [positionSize |-> ToFixed(positionSize, SizeUnit),
         suggestedLeverage |-> suggestedLeverage]
           @@ [f \in DOMAIN signal \ {"strategyName"} |-> signal[f]]

\* the configured risk percent used without the 5% cap
SizeSignalMutant(signal, balance, riskPercent, maxLeverage) ==
    LET entry == signal.entry
        slDistance == slDistanceOf(signal)
        riskAmount == Frac(balance * riskPercent, 100 * Scale)
        riskSize == Frac(riskAmount[1], riskAmount[2] * slDistance)
        positionValue == Frac(riskSize[1] * entry, riskSize[2])
        requiredLeverage == Frac(positionValue[1], positionValue[2] * balance)
        ceilLeverage == Ceil(requiredLeverage) * Scale
        clamp == ceilLeverage > maxLeverage
        positionSize == IF clamp THEN Frac(balance * maxLeverage, Scale * entry)
                        ELSE riskSize
        suggestedLeverage == Max2(1 * Scale,
                                  IF clamp THEN maxLeverage ELSE ceilLeverage)
    IN  [positionSize |-> ToFixed(positionSize, SizeUnit),
         suggestedLeverage |-> suggestedLeverage] @@ signal

\* lines 53-84: sizing of a candidate that passed the checks
SizeSignal(signal, balance, riskPercent, maxLeverage) ==
    LET entry == signal.entry
        slDistance == slDistanceOf(signal)
        effectiveRiskPercent == Min2(riskPercent, MaxRiskPercent)
        \* balance * (effectiveRiskPercent / 100), in fixed-point units
        riskAmount == Frac(balance * effectiveRiskPercent, 100 * Scale)
        riskSize == Frac(riskAmount[1], riskAmount[2] * slDistance)
        positionValue == Frac(riskSize[1] * entry, riskSize[2])
        requiredLeverage == Frac(positionValue[1], positionValue[2] * balance)
        ceilLeverage == Ceil(requiredLeverage) * Scale
        clamp == ceilLeverage > maxLeverage
        positionSize == IF clamp THEN Frac(balance * maxLeverage, Scale * entry)
                        ELSE riskSize
        suggestedLeverage == Max2(1 * Scale,
                                  IF clamp THEN maxLeverage ELSE ceilLeverage)
    IN  [positionSize |-> ToFixed(positionSize, SizeUnit),
         suggestedLeverage |-> suggestedLeverage] @@ signal

\* the reward check moved in front of the stop-distance bounds
applyRiskManagementMutant(signal, balance, riskPercent, maxLeverage) ==
    IF ZeroDistance(signal) THEN
        [isValid |-> FALSE, signal |-> signal, reason |-> ReasonZero]
    ELSE IF RewardTooLow(signal) THEN
        [isValid |-> FALSE, signal |-> signal, reason |-> ReasonReward(signal)]
    ELSE IF StopTooTight(signal) THEN
        [isValid |-> FALSE, signal |-> signal, reason |-> ReasonTight]
    ELSE IF StopTooWide(signal) THEN
        [isValid |-> FALSE, signal |-> signal, reason |-> ReasonWide]
    ELSE [isValid |-> TRUE,
          signal |-> SizeSignal(signal, balance, riskPercent, maxLeverage)]

applyRiskManagement(signal, balance, riskPercent, maxLeverage) ==
    IF ZeroDistance(signal) THEN
        [isValid |-> FALSE, signal |-> signal, reason |-> ReasonZero]
    ELSE IF StopTooTight(signal) THEN
        [isValid |-> FALSE, signal |-> signal, reason |-> ReasonTight]
    ELSE IF StopTooWide(signal) THEN
        [isValid |-> FALSE, signal |-> signal, reason |-> ReasonWide]
    ELSE IF RewardTooLow(signal) THEN
        [isValid |-> FALSE, signal |-> signal, reason |-> ReasonReward(signal)]
    ELSE [isValid |-> TRUE,
          signal |-> SizeSignal(signal, balance, riskPercent, maxLeverage)]

-----------------------------------------------------------------------------
(* Candle sequences the market-data provider can deliver.  A sequence of n   *)
(* bars closes at level first, then for PlateauLen bars at level second,     *)
(* and ends with two free bars t1, t2.  A bar opens at the previous close;   *)
(* in mode "body" its high and low are the body widened by spread, in mode   *)
(* "stale" the feed repeats the open as high and low.  Every bar has volume  *)
(* BaseVolume except the last, which has vlast.                              *)

PlateauLen == 48

MaxExtra == 1

MaxLevel == 4

MaxClock == 2

LevelStep == 10 * Scale

LevelBase == 90 * Scale

Levels == {LevelBase + k * LevelStep : k \in 0..MaxLevel}

PrefixLevels == {<<100 * Scale, 120 * Scale>>, <<120 * Scale, 100 * Scale>>}

Spreads == {0, Scale, 4 * Scale}

Modes == {"body", "stale"}

BaseVolume == 10 * Scale

LastVolumes == {BaseVolume, 2 * BaseVolume}

Lengths == {0, 1, HistoryMin - 1} \cup (HistoryMin..(HistoryMin + MaxExtra))

Clock == 1..MaxClock

CloseAt(n, first, second, t1, t2, i) ==
    IF i = n THEN t2
    ELSE IF i = n - 1 THEN t1
    ELSE IF i >= n - 1 - PlateauLen THEN second
    ELSE first

MakeKlines(n, first, second, t1, t2, spread, mode, vlast) ==
    [i \in 1..n |->
        LET c == CloseAt(n, first, second, t1, t2, i)
            o == IF i = 1 THEN c ELSE CloseAt(n, first, second, t1, t2, i - 1)
        IN  [time |-> i,
             open |-> o,
             high |-> IF mode = "body" THEN Max2(o, c) + spread ELSE o,
             low |-> IF mode = "body" THEN Min2(o, c) - spread ELSE o,
             close |-> c,
             volume |-> IF i = n THEN vlast ELSE BaseVolume]]

\* A rise to 120.00, a spike to 135.00 and a fall to 105.00, which is the
\* mean of the 200 closes
TrendBoundaryKlines ==
    {MakeKlines(HistoryMin, 100 * Scale, 120 * Scale, 135 * Scale, 105 * Scale,
                spread, "body", vlast) :
        spread \in Spreads, vlast \in LastVolumes}

\* A rise or a fall followed by a tail that moves 1.00 against it: no
\* indicator votes
QuietKlines ==
    {MakeKlines(HistoryMin, p[1], p[2], p[2], p[3], spread, "body", vlast) :
        p \in {<<100 * Scale, 120 * Scale, 119 * Scale>>,
                <<120 * Scale, 100 * Scale, 101 * Scale>>},
        spread \in Spreads, vlast \in LastVolumes}

KlineFamily ==
    {MakeKlines(n, p[1], p[2], t1, t2, spread, mode, vlast) :
        n \in Lengths, p \in PrefixLevels, t1 \in Levels, t2 \in Levels,
        spread \in Spreads, mode \in Modes, vlast \in LastVolumes}
    \cup TrendBoundaryKlines \cup QuietKlines

Symbols == <<"BTCUSDT", "ETHUSDT">>

AllTimeframes == {"5m", "15m", "1h", "4h"}

-----------------------------------------------------------------------------
(* Variables the function-call specifications leave idle *)

IdleConfig ==
    [symbols |-> <<>>, accountBalance |-> 0, riskPerTrade |-> 0,
     leverage |-> 0, telegram |-> FALSE]

PipelineIdle ==
    /\ config = IdleConfig
    /\ isRunning = FALSE
    /\ signals = <<>>
    /\ pc = "idle"
    /\ symIdx = 0
    /\ tfIdx = 0
    /\ sigIdx = 0
    /\ timeframes = <<>>
    /\ analysisData = <<>>
    /\ klines = <<>>
    /\ strategyResults = <<>>
    /\ riskResult = None
    /\ success = None
    /\ detectedSignals = <<>>

-----------------------------------------------------------------------------
(* Specification of the confluence engine as a function *)

InitStrategy ==
    /\ args \in {[fn |-> "runAllStrategies", symbol |-> Symbols[1],
                  timeframe |-> tf, klines |-> ks] :
                    tf \in {"15m", "1h"}, ks \in KlineFamily}
    /\ ret = None
    /\ PipelineIdle

CallRunAllStrategies ==
    /\ args.fn = "runAllStrategies"
    /\ ret = None
    /\ \E now \in Clock :
          ret' = runAllStrategies(args.symbol, args.timeframe, args.klines, now)
    /\ UNCHANGED <<args, pipelineVars>>

\* a second call with the arguments of the first, at whatever time the
\* clock then shows
RecallRunAllStrategies ==
    /\ args.fn = "runAllStrategies"
    /\ ret # None
    /\ \E now \in Clock :
          ret' = runAllStrategies(args.symbol, args.timeframe, args.klines, now)
    /\ UNCHANGED <<args, pipelineVars>>

NextStrategy == CallRunAllStrategies \/ RecallRunAllStrategies

SpecStrategy == InitStrategy /\ [][NextStrategy]_vars

-----------------------------------------------------------------------------
(* Specification of the regime classifier as a function.  A ramp of n bars   *)
(* is flat at 100.00 and in each of its last RampLen bars either stays or    *)
(* rises by step, as the pattern says; high and low are the body widened by  *)
(* spread.  On the ramps with spread 0 and 4.00 the regime and the           *)
(* volatility flag of the fixed-point indicators are those of the code in    *)
(* IEEE doubles.                                                             *)

RampLen == 7

RampSteps == {10 * Scale, 20 * Scale}

RampSpreads == {0, 4 * Scale}

RampLengths == {0, 1, RegimeMin - 1} \cup (RegimeMin..(RegimeMin + MaxExtra))

RampPatterns == [1..RampLen -> {0, 1}]

RECURSIVE Risen(_, _)
\* number of rises among the first k bars of the pattern
Risen(pattern, k) ==
    IF k <= 0 THEN 0 ELSE pattern[k] + Risen(pattern, k - 1)

RampKlines(n, pattern, step, spread) ==
    [i \in 1..n |->
        LET c == 100 * Scale + step * Risen(pattern, i - (n - RampLen))
            o == IF i = 1 THEN c
                 ELSE 100 * Scale + step * Risen(pattern, i - 1 - (n - RampLen))
        IN  [time |-> i,
             open |-> o,
             high |-> Max2(o, c) + spread,
             low |-> Min2(o, c) - spread,
             close |-> c,
             volume |-> BaseVolume]]

RampFamily ==
    {RampKlines(n, pattern, step, spread) :
        n \in RampLengths, pattern \in RampPatterns,
        step \in RampSteps, spread \in RampSpreads}

InitRegime ==
    /\ args \in {[fn |-> "selectSmartTimeframes", klines |-> ks] :
                    ks \in RampFamily}
    /\ ret = None
    /\ PipelineIdle

CallSelectSmartTimeframes ==
    /\ args.fn = "selectSmartTimeframes"
    /\ ret = None
    /\ ret' = selectSmartTimeframes(args.klines)
    /\ UNCHANGED <<args, pipelineVars>>

NextRegime == CallSelectSmartTimeframes

SpecRegime == InitRegime /\ [][NextRegime]_vars

-----------------------------------------------------------------------------
(* Specification of calculateRSI as a function.  The closes are a flat lead  *)
(* of period - 2 bars followed by up to MaxCloses bars at three levels, so   *)
(* that the short period 2 and the default period 14 both reach the second   *)
(* loop with rises, falls and flat steps.                                    *)

MaxCloses == 5

RSIPeriods == {2, 14}

RSILevels == {100 * Scale, 101 * Scale, 102 * Scale}

RSICloses(period) ==
    {[i \in 1..(period - 2) |-> 101 * Scale] \o tail :
        tail \in UNION {[1..n -> RSILevels] : n \in 0..MaxCloses}}

InitRSI ==
    /\ args \in {[fn |-> "calculateRSI", closes |-> cs, period |-> p] :
                    p \in RSIPeriods, cs \in UNION {RSICloses(q) : q \in RSIPeriods}}
    /\ ret = None
    /\ PipelineIdle

CallCalculateRSI ==
    /\ args.fn = "calculateRSI"
    /\ ret = None
    /\ ret' = [rsi |-> calculateRSI(args.closes, args.period)]
    /\ UNCHANGED <<args, pipelineVars>>

NextRSI == CallCalculateRSI

SpecRSI == InitRSI /\ [][NextRSI]_vars

-----------------------------------------------------------------------------
(* Specification of the indicator library as functions of short inputs: up   *)
(* to MaxBars candles, the empty input included, with a period below and a   *)
(* period above the input length.                                            *)

MaxBars == 3

IndicatorPeriods == {2, 14}

IndicatorBars ==
    {[time |-> 0, open |-> c, high |-> c + w, low |-> c - w, close |-> c,
      volume |-> BaseVolume] :
        c \in {100 * Scale, 102 * Scale}, w \in {0, Scale}}

IndicatorKlines == UNION {[1..n -> IndicatorBars] : n \in 0..MaxBars}

InitIndicators ==
    /\ args \in {[fn |-> "indicators", klines |-> ks, period |-> p] :
                    ks \in IndicatorKlines, p \in IndicatorPeriods}
    /\ ret = None
    /\ PipelineIdle

CallIndicators ==
    /\ args.fn = "indicators"
    /\ ret = None
    /\ ret' = [sma |-> calculateSMA(Closes(args.klines), args.period),
               ema |-> calculateEMA(Closes(args.klines), args.period),
               rsi |-> calculateRSI(Closes(args.klines), args.period),
               bb |-> calculateBollingerBands(Closes(args.klines), args.period, 2),
               atr |-> calculateATR(args.klines, args.period),
               adx |-> calculateADX(args.klines, args.period)]
    /\ UNCHANGED <<args, pipelineVars>>

NextIndicators == CallIndicators

SpecIndicators == InitIndicators /\ [][NextIndicators]_vars

-----------------------------------------------------------------------------
(* Market data collaborator: strategyService.ts fetchKlines (the variant     *)
(* with retries), one action per stretch of the async function between two   *)
(* awaits.  ret is the promise the call returns (settled, value) with the    *)
(* frame of the running call (at, i), the number of requests issued so far   *)
(* and the response of the last one.  What the exchange answers is chosen    *)
(* anew at every request.                                                    *)

MaxRetries == 3

MaxRaw == 3

\* A number that is no number.  It is kept apart from every price as a value
\* below all of them; the code tests it with isNaN only.
NaN == -1

isNaN(x) == x = NaN

\* the texts of a close in the rows of a response: two prices, two zeros, a
\* blank and a null
CloseTexts == {"100.00", "101.50", "0", "0.00", "", "null"}

parseFloat(text) ==
    CASE text = "100.00" -> 100 * Scale
      [] text = "101.50" -> 101 * Scale + Scale \div 2
      [] text = "10.00" -> 10 * Scale
      [] text = "0" -> 0
      [] text = "0.00" -> 0
      [] OTHER -> NaN

\* the rows of a response body: item[0] the open time, item[1..5] texts
RawRows ==
    UNION {[1..n -> {<<0, "100.00", "100.00", "100.00", c, "10.00">> :
                        c \in CloseTexts}] : n \in 0..MaxRaw}

\* what one request meets: a rate-limit answer, an HTTP error status, a
\* rejected fetch, a body that is no array of rows, or rows
Responses ==
    {[kind |-> k, rows |-> <<>>] :
        k \in {"rateLimit", "httpError", "networkError", "badBody"}}
    \cup {[kind |-> "ok", rows |-> rows] : rows \in RawRows}

\* lines 382-389
rawKlinesOf(data) ==
    [idx \in 1..Len(data) |->
        [time |-> data[idx][1],
         open |-> parseFloat(data[idx][2]),
         high |-> parseFloat(data[idx][3]),
         low |-> parseFloat(data[idx][4]),
         close |-> parseFloat(data[idx][5]),
         volume |-> parseFloat(data[idx][6])]]

\* lines 392-397
ForwardFill(rawKlines) ==
    [idx \in 1..Len(rawKlines) |->
        IF isNaN(rawKlines[idx].close) \/ rawKlines[idx].close = 0
        THEN IF idx > 1
             THEN [rawKlines[idx] EXCEPT !.close = rawKlines[idx - 1].close]
             ELSE rawKlines[idx]
        ELSE rawKlines[idx]]

InitFetch ==
    /\ args \in {[fn |-> "fetchKlines", retries |-> r] : r \in 0..MaxRetries}
    /\ ret = None
    /\ PipelineIdle

\* the call: the promise is pending and the loop starts with i = 0
CallFetchKlines ==
    /\ args.fn = "fetchKlines"
    /\ ret = None
    /\ ret' = [settled |-> "pending", value |-> <<>>, at |-> "loop", i |-> 0,
               requests |-> 0, response |-> None]
    /\ UNCHANGED <<args, pipelineVars>>

\* line 369 and lines 406-407: the loop test, and the return after the loop
FetchLoopTest ==
    /\ args.fn = "fetchKlines"
    /\ ret # None
    /\ ret.at = "loop"
    /\ ret' = IF ret.i < args.retries
              THEN [ret EXCEPT !.at = "request"]
              ELSE [ret EXCEPT !.at = "done", !.settled = "fulfilled",
                               !.value = <<>>]
    /\ UNCHANGED <<args, pipelineVars>>

\* the promise rejects on an HTTP error status
FetchRequestMutant ==
    /\ args.fn = "fetchKlines"
    /\ ret # None
    /\ ret.at = "request"
    /\ \E response \in Responses :
          ret' = IF response.kind = "rateLimit"
                 THEN [ret EXCEPT !.at = "sleepRateLimit",
                                  !.requests = @ + 1, !.response = response]
                 ELSE IF response.kind = "httpError"
                 THEN [ret EXCEPT !.at = "done", !.settled = "rejected",
                                  !.requests = @ + 1, !.response = response]
                 ELSE IF response.kind # "ok"
                 THEN [ret EXCEPT !.at = "sleepRetry",
                                  !.requests = @ + 1, !.response = response]
                 ELSE [ret EXCEPT !.at = "done", !.settled = "fulfilled",
                                  !.value = ForwardFill(rawKlinesOf(response.rows)),
                                  !.requests = @ + 1, !.response = response]
    /\ UNCHANGED <<args, pipelineVars>>

\* lines 370-404: one pass of the try block.  A 429 sleeps and continues;
\* a status that is not ok, a rejected fetch and a body that cannot be
\* mapped throw inside the try and are caught; rows are mapped, filled and
\* returned.
FetchRequest ==
    /\ args.fn = "fetchKlines"
    /\ ret # None
    /\ ret.at = "request"
    /\ \E response \in Responses :
          ret' = IF response.kind = "rateLimit"
                 THEN [ret EXCEPT !.at = "sleepRateLimit",
                                  !.requests = @ + 1, !.response = response]
                 ELSE IF response.kind # "ok"
                 THEN [ret EXCEPT !.at = "sleepRetry",
                                  !.requests = @ + 1, !.response = response]
                 ELSE [ret EXCEPT !.at = "done", !.settled = "fulfilled",
                                  !.value = ForwardFill(rawKlinesOf(response.rows)),
                                  !.requests = @ + 1, !.response = response]
    /\ UNCHANGED <<args, pipelineVars>>

\* lines 376-377 and 402: the sleep is over, the next pass starts (i++)
FetchWake ==
    /\ args.fn = "fetchKlines"
    /\ ret # None
    /\ ret.at \in {"sleepRateLimit", "sleepRetry"}
    /\ ret' = [ret EXCEPT !.at = "loop", !.i = @ + 1]
    /\ UNCHANGED <<args, pipelineVars>>

NextFetch ==
    \/ CallFetchKlines
    \/ FetchLoopTest
    \/ FetchRequest
    \/ FetchWake

\* every awaited promise settles (the timers of sleep fire, a request is
\* answered or fails), and the call is made
SpecFetch == InitFetch /\ [][NextFetch]_vars /\ WF_vars(NextFetch)

-----------------------------------------------------------------------------
(* Specification of the risk validator as a function.  Candidates have      *)
(* their entry at EntryLevels, the stop StopDistances away and the target   *)
(* TargetDistances away, on the side the direction asks for.  All prices    *)
(* are whole units: the differences and quotients the code takes of them    *)
(* in IEEE doubles then compare with 0.001, 0.10 and 2.0 as the exact       *)
(* fractions do.                                                            *)

MaxStopStep == 4

MaxTargetStep == 5

EntryLevels == {100 * Scale, 600 * Scale, 1000 * Scale, 2000 * Scale}

\* 0 .. MaxStopStep, and 10, 11 (10% of 100 and above), 20, 100, 101 (10% of
\* 1000 and above)
StopDistances ==
    {k * Scale : k \in (0..MaxStopStep) \cup {10, 11, 20, 100, 101}}

TargetDistances ==
    {k * Scale : k \in (0..MaxTargetStep)
                      \cup {6, 8, 19, 20, 21, 22, 40, 199, 200, 202, 400, 402}}

Balances == {500 * Scale, 1000 * Scale}

RiskPercents == {Scale \div 2, 1 * Scale, 5 * Scale, 6 * Scale}

MaxLeverages == {0, 1 * Scale, (3 * Scale) \div 2, 5 * Scale, 10 * Scale}

Candidate(direction, entry, sd, td) ==
    [symbol |-> Symbols[1],
     timeframe |-> "15m",
     strategyName |-> <<"EMA Cross", "BB Re-entry">>,
     direction |-> direction,
     entry |-> entry,
     stopLoss |-> IF direction = "LONG" THEN entry - sd ELSE entry + sd,
     takeProfit |-> IF direction = "LONG" THEN entry + td ELSE entry - td,
     timestamp |-> 1,
     status |-> "PENDING"]

Candidates ==
    {Candidate(d, e, sd, td) :
        d \in {"LONG", "SHORT"}, e \in EntryLevels,
        sd \in StopDistances, td \in TargetDistances}

InitRisk ==
    /\ args \in {[fn |-> "applyRiskManagement", signal |-> c, balance |-> b,
                  riskPercent |-> r, maxLeverage |-> m] :
                    c \in Candidates, b \in Balances,
                    r \in RiskPercents, m \in MaxLeverages}
    /\ ret = None
    /\ PipelineIdle

CallApplyRiskManagement ==
    /\ args.fn = "applyRiskManagement"
    /\ ret = None
    /\ ret' = applyRiskManagement(args.signal, args.balance,
                                  args.riskPercent, args.maxLeverage)
    /\ UNCHANGED <<args, pipelineVars>>

NextRisk == CallApplyRiskManagement

SpecRisk == InitRisk /\ [][NextRisk]_vars

-----------------------------------------------------------------------------
(* Scan pipeline: App.tsx runPipeline (SuperStrategy v3), one action per     *)
(* stretch of the async function.  The log panel is presentation and is not  *)
(* modelled.  A const of a loop body holds its initial value again when the  *)
(* iteration that declared it is over.                                       *)

\* What fetchKlines can resolve to: the empty sequence after a failure, or
\* HistoryMin bars: a rise that ends in a LONG confluence, with a quiet, a
\* normal and a wide range and with stale highs and lows; a fall that ends in
\* a SHORT confluence; a drop with a single vote.
FetchResults ==
    {<<>>}
    \cup {MakeKlines(HistoryMin, 100 * Scale, 120 * Scale, 110 * Scale,
                     130 * Scale, sh[1], sh[2], 2 * BaseVolume) :
            sh \in {<<0, "body">>, <<Scale, "body">>, <<4 * Scale, "body">>,
                    <<0, "stale">>}}
    \cup {MakeKlines(HistoryMin, 120 * Scale, 100 * Scale, 110 * Scale,
                     90 * Scale, Scale, "body", 2 * BaseVolume)}
    \cup {MakeKlines(HistoryMin, 100 * Scale, 120 * Scale, 90 * Scale,
                     90 * Scale, Scale, "body", BaseVolume)}

symbol == config.symbols[symIdx]

\* lines 28-37: the configuration is the default or whatever JSON the key
\* bot_config of localStorage holds, taken unchecked; a stored object without
\* a symbols list leaves config.symbols undefined
StoredWithoutSymbols ==
    [accountBalance |-> 1000 * Scale, riskPerTrade |-> 1 * Scale,
     leverage |-> 10 * Scale, telegram |-> FALSE]

tf == timeframes[tfIdx]

InitPipeline ==
    /\ args = [fn |-> "runPipeline"]
    /\ ret = None
    /\ config \in {[symbols |-> Symbols,
                    accountBalance |-> 1000 * Scale,
                    riskPerTrade |-> 1 * Scale,
                    leverage |-> 10 * Scale,
                    telegram |-> t] : t \in BOOLEAN}
                    \cup {StoredWithoutSymbols}
    /\ isRunning = FALSE
    /\ signals = <<>>
    /\ pc = "idle"
    /\ symIdx = 0
    /\ tfIdx = 0
    /\ sigIdx = 0
    /\ timeframes = <<>>
    /\ analysisData = <<>>
    /\ klines = <<>>
    /\ strategyResults = <<>>
    /\ riskResult = None
    /\ success = None
    /\ detectedSignals = <<>>

\* the guard of line 54 forgotten
StartPipelineMutant ==
    /\ signals = <<>>
    /\ isRunning' = TRUE
    /\ detectedSignals' = <<>>
    /\ symIdx' = 1
    /\ pc' = "symbol"
    /\ UNCHANGED <<args, ret, success, config, signals, tfIdx, sigIdx, timeframes,
                   analysisData, klines, strategyResults, riskResult>>

\* lines 53-61: runPipeline is invoked and passes the guard of line 54.  The
\* update of line 55 is rendered before another event is handled, so the
\* handler of a later event reads it.  A scan starts on an empty signal
\* history, which keeps the history bounded.
StartPipeline ==
    /\ ~isRunning
    /\ signals = <<>>
    /\ isRunning' = TRUE
    /\ detectedSignals' = <<>>
    /\ symIdx' = 1
    /\ pc' = "symbol"
    /\ UNCHANGED <<args, ret, success, config, signals, tfIdx, sigIdx, timeframes,
                   analysisData, klines, strategyResults, riskResult>>

\* lines 53-54 and 179-181: runPipeline is invoked while isRunning is set
\* and returns at once
TriggerWhileRunning ==
    /\ isRunning
    /\ UNCHANGED vars

\* lines 149-152, offered between scans
ClearHistory ==
    /\ pc = "idle"
    /\ signals # <<>>
    /\ signals' = <<>>
    /\ UNCHANGED <<args, ret, success, config, isRunning, pc, symIdx, tfIdx, sigIdx,
                   timeframes, analysisData, klines, strategyResults,
                   riskResult, detectedSignals>>

\* line 63: head of for (const symbol of config.symbols); undefined is not
\* iterable and throws a TypeError
SymbolLoop ==
    /\ pc = "symbol"
    /\ pc' = IF "symbols" \notin DOMAIN config THEN "catch"
             ELSE IF symIdx > Len(config.symbols) THEN "finish"
             ELSE "fetchAnalysis"
    /\ UNCHANGED <<args, ret, success, config, isRunning, signals, symIdx, tfIdx, sigIdx,
                   timeframes, analysisData, klines, strategyResults,
                   riskResult, detectedSignals>>

\* line 67: await fetchKlines(symbol, "15m", 300)
FetchAnalysis ==
    /\ pc = "fetchAnalysis"
    /\ \E data \in FetchResults : analysisData' = data
    /\ pc' = "select"
    /\ UNCHANGED <<args, ret, success, config, isRunning, signals, symIdx, tfIdx, sigIdx,
                   timeframes, klines, strategyResults, riskResult,
                   detectedSignals>>

\* the volatility flag not consulted
SelectTimeframesMutant ==
    /\ pc = "select"
    /\ IF Len(analysisData) < HistoryMin
       THEN /\ symIdx' = symIdx + 1
            /\ pc' = "symbol"
            /\ analysisData' = <<>>
            /\ UNCHANGED <<timeframes, tfIdx>>
       ELSE /\ timeframes' = selectSmartTimeframes(analysisData).timeframes
            /\ tfIdx' = 1
            /\ pc' = "timeframe"
            /\ UNCHANGED <<symIdx, analysisData>>
    /\ UNCHANGED <<args, ret, success, config, isRunning, signals, sigIdx, klines,
                   strategyResults, riskResult, detectedSignals>>

\* break in place of continue after a rejected baseline
SelectTimeframesBreakMutant ==
    /\ pc = "select"
    /\ IF Len(analysisData) < HistoryMin
          \/ selectSmartTimeframes(analysisData).isVolatile
       THEN /\ pc' = "finish"
            /\ analysisData' = <<>>
            /\ UNCHANGED <<symIdx, timeframes, tfIdx>>
       ELSE /\ timeframes' = selectSmartTimeframes(analysisData).timeframes
            /\ tfIdx' = 1
            /\ pc' = "timeframe"
            /\ UNCHANGED <<symIdx, analysisData>>
    /\ UNCHANGED <<args, ret, success, config, isRunning, signals, sigIdx, klines,
                   strategyResults, riskResult, detectedSignals>>

\* lines 68-83: the two continue statements and the entry of the timeframe loop
SelectTimeframes ==
    /\ pc = "select"
    /\ IF Len(analysisData) < HistoryMin
          \/ selectSmartTimeframes(analysisData).isVolatile
       THEN /\ symIdx' = symIdx + 1
            /\ pc' = "symbol"
            /\ analysisData' = <<>>
            /\ UNCHANGED <<timeframes, tfIdx>>
       ELSE /\ timeframes' = selectSmartTimeframes(analysisData).timeframes
            /\ tfIdx' = 1
            /\ pc' = "timeframe"
            /\ UNCHANGED <<symIdx, analysisData>>
    /\ UNCHANGED <<args, ret, success, config, isRunning, signals, sigIdx, klines,
                   strategyResults, riskResult, detectedSignals>>

\* lines 85-88: head of for (const tf of timeframes)
TimeframeLoop ==
    /\ pc = "timeframe"
    /\ IF tfIdx > Len(timeframes)
       THEN /\ symIdx' = symIdx + 1
            /\ pc' = "symbol"
            /\ timeframes' = <<>>
            /\ tfIdx' = 0
            /\ analysisData' = <<>>
            /\ UNCHANGED klines
       ELSE /\ IF tf = "15m"
               THEN klines' = analysisData /\ pc' = "strategy"
               ELSE klines' = klines /\ pc' = "fetchTimeframe"
            /\ UNCHANGED <<symIdx, timeframes, tfIdx, analysisData>>
    /\ UNCHANGED <<args, ret, success, config, isRunning, signals, sigIdx,
                   strategyResults, riskResult, detectedSignals>>

\* line 88: await fetchKlines(symbol, tf, 300)
FetchTimeframe ==
    /\ pc = "fetchTimeframe"
    /\ \E data \in FetchResults : klines' = data
    /\ pc' = "strategy"
    /\ UNCHANGED <<args, ret, success, config, isRunning, signals, symIdx, tfIdx, sigIdx,
                   timeframes, analysisData, strategyResults, riskResult,
                   detectedSignals>>

\* lines 89-95
RunStrategy ==
    /\ pc = "strategy"
    /\ IF Len(klines) < HistoryMin
       THEN /\ tfIdx' = tfIdx + 1
            /\ pc' = "timeframe"
            /\ klines' = <<>>
            /\ UNCHANGED <<strategyResults, sigIdx>>
       ELSE /\ \E now \in Clock :
                 strategyResults' = runAllStrategies(symbol, tf, klines, now).signals
            /\ sigIdx' = 1
            /\ pc' = "signal"
            /\ UNCHANGED <<tfIdx, klines>>
    /\ UNCHANGED <<args, ret, success, config, isRunning, signals, symIdx, timeframes,
                   analysisData, riskResult, detectedSignals>>

\* lines 97-118 and 127-129: one candidate up to the await of the notifier
ValidateSignal ==
    /\ pc = "signal"
    /\ IF sigIdx > Len(strategyResults)
       THEN /\ tfIdx' = tfIdx + 1
            /\ pc' = "timeframe"
            /\ klines' = <<>>
            /\ strategyResults' = <<>>
            /\ sigIdx' = 0
            /\ UNCHANGED <<riskResult, detectedSignals>>
       ELSE LET result == applyRiskManagement(strategyResults[sigIdx],
                                              config.accountBalance,
                                              config.riskPerTrade,
                                              config.leverage)
            IN  /\ UNCHANGED <<tfIdx, klines, strategyResults>>
                /\ IF ~result.isValid
                   THEN /\ sigIdx' = sigIdx + 1
                        /\ pc' = "signal"
                        /\ UNCHANGED <<riskResult, detectedSignals>>
                   ELSE /\ detectedSignals' = Append(detectedSignals, result.signal)
                        /\ IF config.telegram
                           THEN /\ riskResult' = result
                                /\ pc' = "notify"
                                /\ UNCHANGED sigIdx
                           ELSE /\ sigIdx' = sigIdx + 1
                                /\ pc' = "signal"
                                /\ UNCHANGED riskResult
    /\ UNCHANGED <<args, ret, success, config, isRunning, signals, symIdx, timeframes,
                   analysisData>>

\* telegramService.ts lines 8-76: sendTelegramSignal resolves, to true after
\* an ok response and to false after any other response or a failed request
NotifierResolves ==
    /\ pc = "notify"
    /\ success' \in BOOLEAN
    /\ pc' = "notified"
    /\ UNCHANGED <<args, ret, config, isRunning, signals, symIdx, tfIdx, sigIdx,
                   timeframes, analysisData, klines, strategyResults,
                   riskResult, detectedSignals>>

\* every alert marked as sent
NotifyMutant ==
    /\ pc = "notified"
    /\ detectedSignals' =
          [detectedSignals EXCEPT ![Len(detectedSignals)].status = "SENT"]
    /\ riskResult' = None
    /\ success' = None
    /\ sigIdx' = sigIdx + 1
    /\ pc' = "signal"
    /\ UNCHANGED <<args, ret, config, isRunning, signals, symIdx, tfIdx,
                   timeframes, analysisData, klines, strategyResults>>

\* lines 119-126: the continuation of the await of sendTelegramSignal;
\* validatedSignal is the object pushed last on detectedSignals, so the
\* status is written there
Notify ==
    /\ pc = "notified"
    /\ detectedSignals' =
          [detectedSignals EXCEPT ![Len(detectedSignals)].status =
              IF success THEN "SENT" ELSE "FAILED"]
    /\ riskResult' = None
    /\ success' = None
    /\ sigIdx' = sigIdx + 1
    /\ pc' = "signal"
    /\ UNCHANGED <<args, ret, config, isRunning, signals, symIdx, tfIdx,
                   timeframes, analysisData, klines, strategyResults>>

\* lines 134-146
FinishPipeline ==
    /\ pc = "finish"
    /\ signals' = detectedSignals \o signals
    /\ isRunning' = FALSE
    /\ pc' = "idle"
    /\ UNCHANGED <<args, ret, success, config, symIdx, tfIdx, sigIdx, timeframes,
                   analysisData, klines, strategyResults, riskResult,
                   detectedSignals>>

\* lines 141-146: an exception of the try block is logged, and the finally
\* block resets isRunning; setSignals of line 134 was not reached
CatchFinally ==
    /\ pc = "catch"
    /\ isRunning' = FALSE
    /\ pc' = "idle"
    /\ UNCHANGED <<args, ret, success, config, signals, symIdx, tfIdx, sigIdx,
                   timeframes, analysisData, klines, strategyResults,
                   riskResult, detectedSignals>>

Next ==
    \/ StartPipeline
    \/ TriggerWhileRunning
    \/ ClearHistory
    \/ SymbolLoop
    \/ FetchAnalysis
    \/ SelectTimeframes
    \/ TimeframeLoop
    \/ FetchTimeframe
    \/ RunStrategy
    \/ ValidateSignal
    \/ NotifierResolves
    \/ Notify
    \/ FinishPipeline
    \/ CatchFinally

Spec == InitPipeline /\ [][Next]_vars

\* the steps of a running scan: each awaited promise settles and each
\* continuation is run
RunSteps ==
    \/ SymbolLoop
    \/ FetchAnalysis
    \/ TimeframeLoop
    \/ FetchTimeframe
    \/ NotifierResolves
    \/ Notify
    \/ FinishPipeline
    \/ CatchFinally

\* the synchronous stretches of the loop body: lines 68-83, 89-95 and 97-118.
\* Each is one IF-THEN-ELSE under its test of pc and changes pc or sigIdx,
\* so it is enabled exactly where pc has its value
ComputeSteps ==
    \/ SelectTimeframes
    \/ RunStrategy
    \/ ValidateSignal

AtComputeStep == pc \in {"select", "strategy", "signal"}

\* a scan in progress is continued: an awaited promise that has settled
\* resumes the function, and a synchronous stretch runs to its end.  The
\* second conjunct is WF_vars(ComputeSteps) with its enabling condition
\* written out as AtComputeStep
FairSpec ==
    /\ Spec
    /\ WF_vars(RunSteps)
    /\ ([]<>(~AtComputeStep) \/ []<><<ComputeSteps>>_vars)

-----------------------------------------------------------------------------
(* Properties of the confluence engine, checked under SpecStrategy *)

Returned == args.fn = "runAllStrategies" /\ ret # None

Emitted == Returned /\ ret.signals # <<>>

ArgCloses == Closes(args.klines)

\* number of the three indicator votes that equal sign (1 long, -1 short)
Votes(closes, sign) ==
    Cardinality({k \in 1..3 :
        <<emaScoreOf(closes), rsiScoreOf(closes), bbScoreOf(closes)>>[k] = sign})

SignOf(direction) == IF direction = "LONG" THEN 1 ELSE -1

\* 200 x latest close and the sum of the latest 200 closes: their order is
\* the order of the latest close and SMA200[last]
Close200 == 200 * ArgCloses[Len(ArgCloses)]

Sum200 == SumRange(ArgCloses, Len(ArgCloses) - 199, Len(ArgCloses))

Volume20 == 20 * args.klines[Len(args.klines)].volume

SumVolume20 ==
    SumRange(Volumes(args.klines), Len(args.klines) - 19, Len(args.klines))

LatestATR == calculateATR(args.klines, 14)[Len(args.klines)]

\* C1: runAllStrategies emits a signal only in a direction that at least 2
\* of the three indicator votes (EMA cross, RSI, Bollinger re-entry) agree on.
C1_ConfluenceRequired ==
    Emitted =>
        \A i \in 1..Len(ret.signals) :
            Votes(ArgCloses, SignOf(ret.signals[i].direction)) >= 2

\* A single short vote with the trend down and the volume confirmed: nothing
\* is emitted.
C1_Witness ==
    /\ Returned
    /\ Len(args.klines) >= 200
    /\ Votes(ArgCloses, -1) = 1
    /\ Votes(ArgCloses, 1) = 0
    /\ Close200 < Sum200
    /\ Volume20 > SumVolume20
    /\ ret.signals = <<>>

\* C4: every emitted signal has the stop and the target strictly on the
\* correct side of the entry: LONG stopLoss < entry < takeProfit, SHORT
\* takeProfit < entry < stopLoss.
C4_StopTargetSides ==
    Emitted =>
        \A i \in 1..Len(ret.signals) :
            LET s == ret.signals[i]
            IN  IF s.direction = "LONG"
                THEN s.stopLoss < s.entry /\ s.entry < s.takeProfit
                ELSE s.takeProfit < s.entry /\ s.entry < s.stopLoss

C6_TrendGate ==
    /\ Emitted =>
          \A i \in 1..Len(ret.signals) :
              IF ret.signals[i].direction = "LONG" THEN Close200 > Sum200
              ELSE Close200 < Sum200
    /\ (Returned /\ Len(args.klines) >= 200
          /\ Votes(ArgCloses, 1) >= 2 /\ Close200 < Sum200) =>
          /\ ret.signals = <<>>
          /\ Len(ret.rejections) = 1
          /\ ret.rejections[1].msg = "LONG confluence rejected by SMA 200 trend filter"
    /\ (Returned /\ Len(args.klines) >= 200
          /\ Votes(ArgCloses, 1) < 2 /\ Votes(ArgCloses, -1) >= 2
          /\ Close200 > Sum200) =>
          /\ ret.signals = <<>>
          /\ Len(ret.rejections) = 1
          /\ ret.rejections[1].msg = "SHORT confluence rejected by SMA 200 trend filter"

\* C7: a signal is emitted only with the latest volume strictly above the
\* average volume of the latest 20 bars, and a confluence with the trend that
\* fails this gives the volume rejection and no signal.
C7_VolumeGate ==
    /\ Emitted => Volume20 > SumVolume20
    /\ (Returned /\ Len(args.klines) >= 200 /\ Volume20 <= SumVolume20
          /\ Votes(ArgCloses, 1) >= 2 /\ Close200 > Sum200) =>
          /\ ret.signals = <<>>
          /\ Len(ret.rejections) = 1
          /\ ret.rejections[1].msg = "LONG confluence rejected by Volume filter"
    /\ (Returned /\ Len(args.klines) >= 200 /\ Volume20 <= SumVolume20
          /\ Votes(ArgCloses, 1) < 2 /\ Votes(ArgCloses, -1) >= 2
          /\ Close200 < Sum200) =>
          /\ ret.signals = <<>>
          /\ Len(ret.rejections) = 1
          /\ ret.rejections[1].msg = "SHORT confluence rejected by Volume filter"

\* A LONG confluence with the trend whose latest volume equals the average
C7_Witness ==
    /\ Returned
    /\ Len(args.klines) >= 200
    /\ Votes(ArgCloses, 1) >= 2
    /\ Close200 > Sum200
    /\ Volume20 = SumVolume20
    /\ ret.signals = <<>>

\* C8: for fewer than 200 bars the result is the empty signals list and
\* exactly one insufficient-history rejection.
C8_InsufficientHistory ==
    (Returned /\ Len(args.klines) < 200) =>
        /\ ret.signals = <<>>
        /\ Len(ret.rejections) = 1
        /\ ret.rejections[1].msg = "Insufficient history for SuperStrategy"
        /\ ret.rejections[1].n = Len(args.klines)

C8_Witness == Returned /\ Len(args.klines) = 199

\* C9: one call returns at most one signal, and an emitted signal is PENDING
\* and carries the symbol and the timeframe of the call.
C9_AtMostOnePending ==
    Returned =>
        /\ Len(ret.signals) <= 1
        /\ \A i \in 1..Len(ret.signals) :
              /\ ret.signals[i].status = "PENDING"
              /\ ret.signals[i].symbol = args.symbol
              /\ ret.signals[i].timeframe = args.timeframe

C9_Witness == Emitted /\ args.timeframe = "1h" /\ Len(ret.signals) = 1

ArgLongSignals ==
    longSignalsOf(emaScoreOf(ArgCloses), rsiScoreOf(ArgCloses), bbScoreOf(ArgCloses))

ArgShortSignals ==
    shortSignalsOf(emaScoreOf(ArgCloses), rsiScoreOf(ArgCloses), bbScoreOf(ArgCloses))

LowConfluenceLogged(names) ==
    \E k \in 1..Len(ret.rejections) :
        /\ ret.rejections[k].msg = "Low confluence"
        /\ ret.rejections[k].names = names

\* C23: when no direction has 2 votes, no signal is emitted and every
\* direction that has exactly one vote has a low-confluence entry for that
\* vote in the rejections, also when a long and a short vote occur together.
C23_SingleVoteLogged ==
    (Returned /\ Len(args.klines) >= 200
       /\ Len(ArgLongSignals) < 2 /\ Len(ArgShortSignals) < 2) =>
        /\ Len(ArgLongSignals) = 1 =>
              ret.signals = <<>> /\ LowConfluenceLogged(ArgLongSignals)
        /\ Len(ArgShortSignals) = 1 =>
              ret.signals = <<>> /\ LowConfluenceLogged(ArgShortSignals)

\* C28: the long and the short votes never both number 2 or more in one
\* call, and a call with 2 short votes is decided as a SHORT confluence: a
\* SHORT signal or a rejection of the SHORT confluence.
C28_NoTie ==
    (Returned /\ Len(args.klines) >= 200) =>
        /\ ~(Len(ArgLongSignals) >= 2 /\ Len(ArgShortSignals) >= 2)
        /\ Len(ArgLongSignals) + Len(ArgShortSignals) <= 3
        /\ Len(ArgShortSignals) >= 2 =>
              \/ /\ Len(ret.signals) = 1
                 /\ ret.signals[1].direction = "SHORT"
              \/ /\ ret.signals = <<>>
                 /\ Len(ret.rejections) = 1
                 /\ ret.rejections[1].msg \in
                       {"SHORT confluence rejected by SMA 200 trend filter",
                        "SHORT confluence rejected by Volume filter"}

\* two short votes beside a long vote
C28_Witness ==
    /\ Returned
    /\ Len(args.klines) >= 200
    /\ Len(ArgShortSignals) = 2
    /\ Len(ArgLongSignals) = 1

\* C19: two calls with equal arguments return equal results, every field of
\* an emitted Signal included: a call that follows a call with the same
\* arguments returns what the first returned.
C19_EqualResults ==
    [][(ret # None /\ args' = args) => ret' = ret]_vars

-----------------------------------------------------------------------------
(* Properties of calculateRSI, checked under SpecRSI *)

RSIReturned == args.fn = "calculateRSI" /\ ret # None

\* closes[i] - closes[i - 1] when it has the given sign (1 gain, -1 loss),
\* as a magnitude
Move(closes, i, sign) ==
    LET diff == closes[i] - closes[i - 1]
    IN  IF sign = 1 THEN (IF diff >= 0 THEN diff ELSE 0)
        ELSE (IF diff < 0 THEN -diff ELSE 0)

RECURSIVE SeedSum(_, _, _)
\* sum of the moves of one sign over the first k steps
SeedSum(closes, k, sign) ==
    IF k <= 0 THEN 0
    ELSE SeedSum(closes, k - 1, sign) + Move(closes, k + 1, sign)

RECURSIVE MoveAverage(_, _, _, _)
\* Wilder average of the moves of one sign at the 1-based position i, in
\* units of 1 / (Scale * Scale)
MoveAverage(closes, period, i, sign) ==
    IF i <= period + 1 THEN (SeedSum(closes, period, sign) * Scale) \div period
    ELSE (MoveAverage(closes, period, i - 1, sign) * (period - 1)
            + Move(closes, i, sign) * Scale) \div period

\* C20: calculateRSI yields exactly 100 at every index above period where
\* the Wilder average loss is 0 and 100 - 100 / (1 + avgGain / avgLoss) at
\* the others; the indices up to period hold the sentinel 50.  (Position i
\* of the sequence is index i - 1 of the array.)
C20_RSIValues ==
    RSIReturned =>
        /\ Len(ret.rsi) = Len(args.closes)
        /\ \A i \in 1..Len(ret.rsi) :
              IF i - 1 <= args.period THEN ret.rsi[i] = 50 * Scale
              ELSE LET avgGain == MoveAverage(args.closes, args.period, i, 1)
                       avgLoss == MoveAverage(args.closes, args.period, i, -1)
                   IN  IF avgLoss = 0 THEN ret.rsi[i] = 100 * Scale
                       ELSE ret.rsi[i] = 100 * Scale
                               - (100 * Scale * Scale)
                                    \div (Scale + (avgGain * Scale) \div avgLoss)

-----------------------------------------------------------------------------
(* Properties of the indicator library, checked under SpecIndicators *)

IndicatorsReturned == args.fn = "indicators" /\ ret # None

\* C21: each of the six indicator outputs has exactly the length of its
\* input, for every input length, the empty input and inputs shorter than
\* the period included.
C21_OutputLengths ==
    IndicatorsReturned =>
        /\ Len(ret.sma) = Len(args.klines)
        /\ Len(ret.ema) = Len(args.klines)
        /\ Len(ret.rsi) = Len(args.klines)
        /\ Len(ret.bb) = Len(args.klines)
        /\ Len(ret.atr) = Len(args.klines)
        /\ Len(ret.adx) = Len(args.klines)

-----------------------------------------------------------------------------
(* Properties of fetchKlines, checked under SpecFetch *)

FetchCalled == args.fn = "fetchKlines" /\ ret # None

FetchSettled == FetchCalled /\ ret.settled # "pending"

\* C22: fetchKlines never raises and always terminates; it issues at most
\* retries requests, and it returns the empty sequence when no request
\* succeeded.
C22_FetchTerminates ==
    /\ [](FetchCalled =>
            /\ ret.settled # "rejected"
            /\ ret.requests <= args.retries
            /\ (ret.settled = "fulfilled"
                  /\ (ret.response = None \/ ret.response.kind # "ok"))
                   => ret.value = <<>>)
    /\ <>FetchSettled

\* every one of three requests failed, each in another way
C22_Witness ==
    /\ FetchSettled
    /\ args.retries = 3
    /\ ret.requests = 3
    /\ ret.response.kind = "httpError"
    /\ ret.value = <<>>

\* C24: in the returned sequence every bar after the first whose fetched
\* close is missing or 0 has the close of the bar before it in the returned
\* sequence, so that a run of missing closes holds the last valid close
\* throughout.
C24_ForwardFill ==
    (FetchSettled /\ ret.response # None /\ ret.response.kind = "ok") =>
        /\ Len(ret.value) = Len(ret.response.rows)
        /\ \A idx \in 2..Len(ret.value) :
              LET fetched == parseFloat(ret.response.rows[idx][5])
              IN  (isNaN(fetched) \/ fetched = 0) =>
                      ret.value[idx].close = ret.value[idx - 1].close

-----------------------------------------------------------------------------
(* Properties of the risk validator, checked under SpecRisk *)

RiskReturned == args.fn = "applyRiskManagement" /\ ret # None

StopGap(s) == Abs(s.entry - s.stopLoss)

CheckZero(s) == s.entry = s.stopLoss

CheckTight(s) == StopGap(s) * 1000 < s.entry

CheckWide(s) == StopGap(s) * 10 > s.entry

CheckReward(s) == Abs(s.takeProfit - s.entry) < 2 * StopGap(s)

FirstReason(s) ==
    IF CheckZero(s) THEN ReasonZero
    ELSE IF CheckTight(s) THEN ReasonTight
    ELSE IF CheckWide(s) THEN ReasonWide
    ELSE ReasonReward(s)

\* C10: the result is invalid exactly when one of the checks zero stop
\* distance, stop too tight, stop too wide, risk/reward too low is violated,
\* its reason is that of the first violated check in this order, and the
\* four reasons are pairwise distinct.
C10_FirstViolatedCheck ==
    RiskReturned =>
        LET s == args.signal
        IN  /\ ret.isValid = ~(CheckZero(s) \/ CheckTight(s) \/ CheckWide(s)
                                \/ CheckReward(s))
            /\ ~ret.isValid => ret.reason = FirstReason(s)
            /\ ~CheckZero(s) =>
                  Cardinality({ReasonZero, ReasonTight, ReasonWide,
                               ReasonReward(s)}) = 4

\* A stop that is too tight with a reward that is too low: the reason is the
\* stop's.
C10_Witness ==
    /\ RiskReturned
    /\ ~CheckZero(args.signal)
    /\ CheckTight(args.signal)
    /\ CheckReward(args.signal)
    /\ ~ret.isValid
    /\ ret.reason = ReasonTight

\* the decision is none of the three stop-distance rejections
PassesStopChecks ==
    ret.isValid \/ ret.reason \notin {ReasonZero, ReasonTight, ReasonWide}

\* C11: the stop-distance check is passed exactly when the stop distance as
\* a fraction of entry is in (0.001, 0.10]: a fraction of 0.001 or less is
\* rejected as noise (zero distance by the zero check), a fraction above 0.10
\* as extreme volatility, and exactly 0.10 is accepted.
C11_StopDistanceInterval ==
    RiskReturned =>
        LET s == args.signal
            aboveLower == StopGap(s) * 1000 > s.entry
            withinUpper == StopGap(s) * 10 <= s.entry
        IN  /\ PassesStopChecks = (aboveLower /\ withinUpper)
            /\ (~aboveLower /\ StopGap(s) > 0) =>
                  (~ret.isValid /\ ret.reason = ReasonTight)
            /\ ~withinUpper => (~ret.isValid /\ ret.reason = ReasonWide)

\* C12: a candidate that passes the stop-distance checks is valid exactly
\* when |target - entry| >= 2 x |entry - stop|, and is otherwise rejected
\* with the R/R reason that carries the ratio; entry 100, stop 99 is valid
\* with target 102 and rejected with ratio 1.00 with target 101.
C12_RewardRatio ==
    (RiskReturned /\ ~CheckZero(args.signal) /\ ~CheckTight(args.signal)
        /\ ~CheckWide(args.signal)) =>
        LET s == args.signal
            reward == Abs(s.takeProfit - s.entry)
        IN  /\ ret.isValid = (reward >= 2 * StopGap(s))
            /\ ~ret.isValid =>
                  /\ Len(ret.reason) = 3
                  /\ ret.reason[1] = "Rejected: R/R Ratio too low ("
                  /\ ret.reason[3] = " < 2.0)"
                  /\ ret.reason[2] * StopGap(s) * 2 <= (2 * reward * 100 + StopGap(s))
                  /\ ret.reason[2] * StopGap(s) * 2 > (2 * reward * 100 - StopGap(s))
            /\ (s.entry = 100 * Scale /\ StopGap(s) = 1 * Scale
                  /\ reward = 1 * Scale) =>
                  (~ret.isValid /\ ret.reason[2] = 100)

\* entry 100, stop 99, target 102: the ratio is exactly 2.0
C12_Witness ==
    /\ RiskReturned
    /\ args.signal.direction = "LONG"
    /\ args.signal.entry = 100 * Scale
    /\ args.signal.stopLoss = 99 * Scale
    /\ args.signal.takeProfit = 102 * Scale
    /\ ret.isValid

\* min(riskPercent, 5)
CappedRisk == IF args.riskPercent > 5 * Scale THEN 5 * Scale ELSE args.riskPercent

\* The required leverage (riskAmount / stop distance) x entry / balance
\* = min(riskPercent, 5) / 100 x entry / stop distance, rounded up to the
\* next integer, is at most maxLeverage: that is, the leverage before
\* rounding is at most the whole part of maxLeverage.
LeverageWithinMax ==
    CappedRisk * args.signal.entry
        <= (args.maxLeverage \div Scale) * 100 * Scale * StopGap(args.signal)

\* C13: for a valid candidate whose required leverage is within the maximum,
\* positionSize is (balance x min(riskPercent, 5) / 100) / |entry - stop|
\* rounded to 6 decimals; balance 1000, riskPercent 1, maxLeverage 5,
\* entry 100, stop 98 gives positionSize 5 and suggestedLeverage 1.
C13_PositionSize ==
    (RiskReturned /\ ret.isValid /\ LeverageWithinMax) =>
        /\ ret.signal.positionSize =
              ToFixed(Frac(args.balance * CappedRisk,
                           100 * Scale * StopGap(args.signal)), SizeUnit)
        /\ (args.balance = 1000 * Scale /\ args.riskPercent = 1 * Scale
              /\ args.maxLeverage = 5 * Scale
              /\ args.signal.entry = 100 * Scale
              /\ StopGap(args.signal) = 2 * Scale) =>
              /\ ret.signal.positionSize = 5 * SizeUnit
              /\ ret.signal.suggestedLeverage = 1 * Scale

\* A risk percent of 6 sized as 5: balance 1000, entry 100, stop 98 gives 25
C13_Witness ==
    /\ RiskReturned
    /\ ret.isValid
    /\ LeverageWithinMax
    /\ args.riskPercent = 6 * Scale
    /\ args.balance = 1000 * Scale
    /\ args.signal.entry = 100 * Scale
    /\ StopGap(args.signal) = 2 * Scale
    /\ ret.signal.positionSize = 25 * SizeUnit

\* C14: for every valid decision suggestedLeverage is an integer, is at
\* least 1 and is at most the configured maximum leverage.
C14_LeverageRange ==
    (RiskReturned /\ ret.isValid) =>
        /\ ret.signal.suggestedLeverage % Scale = 0
        /\ ret.signal.suggestedLeverage >= 1 * Scale
        /\ ret.signal.suggestedLeverage <= args.maxLeverage

\* balance x min(riskPercent, 5) / 100, in units of 1 / Scale
RiskAmount == (args.balance * CappedRisk) \div (100 * Scale)

\* C15: when the leverage clamp is applied the recomputed size
\* (balance x maxLeverage) / entry is not larger than the risk-based size
\* riskAmount / stop distance, and for every valid decision
\* positionSize x |entry - stop| is at most balance x min(riskPercent, 5) / 100.
\* (positionSize is in units of 1 / SizeUnit, the stop distance in whole units.)
C15_ClampReducesRisk ==
    (RiskReturned /\ ret.isValid) =>
        /\ ~LeverageWithinMax =>
              args.maxLeverage * 100 * StopGap(args.signal)
                  <= CappedRisk * args.signal.entry
        /\ ret.signal.positionSize * (StopGap(args.signal) \div Scale)
              <= RiskAmount * (SizeUnit \div Scale)

\* the largest size, in units of 1 / SizeUnit, whose position value does not
\* exceed balance * maxLeverage (entry and balance are whole numbers here)
LargestSizeWithin ==
    LET entry == args.signal.entry \div Scale
        cap == (args.balance \div Scale) * args.maxLeverage
    IN  (cap \div entry) * (SizeUnit \div Scale)
          + ((cap % entry) * (SizeUnit \div Scale)) \div entry

\* C27: for every valid decision positionSize * entry does not exceed
\* balance * maxLeverage, with or without the leverage clamp and after the
\* rounding of positionSize to 6 decimals.
C27_PositionValueCap ==
    (RiskReturned /\ ret.isValid) =>
        ret.signal.positionSize <= LargestSizeWithin

\* C29: applyRiskManagement does not change its input signal; a rejection
\* returns the input signal as it is, without positionSize and
\* suggestedLeverage; a success returns the input signal with these two
\* fields added and every field of the input unchanged.
C29_CandidateUntouched ==
    /\ [](RiskReturned =>
            IF ret.isValid
            THEN /\ DOMAIN ret.signal
                       = DOMAIN args.signal \cup {"positionSize", "suggestedLeverage"}
                 /\ \A f \in DOMAIN args.signal : ret.signal[f] = args.signal[f]
            ELSE /\ ret.signal = args.signal
                 /\ "positionSize" \notin DOMAIN ret.signal
                 /\ "suggestedLeverage" \notin DOMAIN ret.signal)
    /\ [][args'.signal = args.signal]_vars

\* a sized SHORT candidate
C29_Witness ==
    /\ RiskReturned
    /\ ret.isValid
    /\ args.signal.direction = "SHORT"
    /\ "positionSize" \in DOMAIN ret.signal
    /\ "positionSize" \notin DOMAIN args.signal
    /\ ret.signal.status = "PENDING"

-----------------------------------------------------------------------------
(* Properties of the regime classifier, checked under SpecRegime *)

RegimeReturned == args.fn = "selectSmartTimeframes" /\ ret # None

EnoughBars == Len(args.klines) >= 50

LatestADX == calculateADX(args.klines, 14)[Len(args.klines)]

\* 20 times the mean of the trailing 20 ATR values
TrailingATRSum ==
    LET atr == calculateATR(args.klines, 14)
    IN  SumRange(atr, Len(atr) - 19, Len(atr))

\* C16: on 50 bars or more the ranging pair is chosen when the latest ADX is
\* below 20, the trending pair when it is above 25 and the transition pair
\* otherwise; a latest ADX of exactly 20 or exactly 25 chooses the
\* transition pair.
C16_RegimePair ==
    /\ (RegimeReturned /\ EnoughBars) =>
          ret.timeframes =
             (IF LatestADX < 20 * Scale THEN <<"5m", "15m">>
              ELSE IF LatestADX > 25 * Scale THEN <<"1h", "4h">>
              ELSE <<"15m", "1h">>)
    /\ TimeframesFor(20 * Scale) = <<"15m", "1h">>
    /\ TimeframesFor(25 * Scale) = <<"15m", "1h">>
    /\ TimeframesFor(20 * Scale - 1) = <<"5m", "15m">>
    /\ TimeframesFor(25 * Scale + 1) = <<"1h", "4h">>

C16_Witness ==
    /\ RegimeReturned
    /\ EnoughBars
    /\ LatestADX >= 20 * Scale
    /\ LatestADX <= 25 * Scale
    /\ ret.timeframes = <<"15m", "1h">>

\* C17: on 50 bars or more isVolatile is true exactly when the latest
\* ATR(14) is above 1.8 times the mean of the trailing 20 ATR values,
\* whatever the ADX regime is.
C17_VolatileFlag ==
    (RegimeReturned /\ EnoughBars) =>
        (ret.isVolatile <=> LatestATR * 20 * 10 > 18 * TrailingATRSum)

\* a spike flagged in the trending regime
C17_Witness ==
    /\ RegimeReturned
    /\ EnoughBars
    /\ ret.isVolatile
    /\ LatestADX > 25 * Scale
    /\ LatestATR * 20 * 10 > 18 * TrailingATRSum

\* C18: on fewer than 50 bars, none included, the default pair and
\* isVolatile = false are returned.
C18_ShortHistory ==
    (RegimeReturned /\ Len(args.klines) < 50) =>
        ret = [timeframes |-> <<"15m", "1h">>, isVolatile |-> FALSE]

C18_Witness ==
    /\ RegimeReturned
    /\ Len(args.klines) = 0
    /\ ret = [timeframes |-> <<"15m", "1h">>, isVolatile |-> FALSE]

-----------------------------------------------------------------------------
(* Properties of the scan pipeline, checked under Spec *)

\* the risk checks on an enriched signal
RiskChecksPass(s) ==
    ~(CheckZero(s) \/ CheckTight(s) \/ CheckWide(s) \/ CheckReward(s))

\* the candidate a confirmed signal was made of
Stripped(s) ==
    [f \in DOMAIN s \ {"positionSize", "suggestedLeverage"} |-> s[f]]

EmittedNow(s) ==
    \E now \in Clock :
        \E i \in 1..Len(runAllStrategies(symbol, tf, klines, now).signals) :
            runAllStrategies(symbol, tf, klines, now).signals[i] = Stripped(s)

\* C2: a signal is added to the confirmed list, and handed to the notifier,
\* only if runAllStrategies emitted it for the candles under analysis and the
\* risk checks pass on it.
C2_BothGates ==
    [][/\ Len(detectedSignals') > Len(detectedSignals) =>
             /\ RiskChecksPass(detectedSignals'[Len(detectedSignals')])
             /\ EmittedNow(detectedSignals'[Len(detectedSignals')])
       /\ pc' = "notify" =>
             /\ riskResult'.isValid
             /\ riskResult'.signal = detectedSignals'[Len(detectedSignals')]
             /\ RiskChecksPass(riskResult'.signal)]_vars

C2_Witness ==
    /\ pc = "notify"
    /\ detectedSignals # <<>>
    /\ riskResult.signal = detectedSignals[Len(detectedSignals)]

\* C3: while the pipeline analyses, validates or sends for a symbol, the
\* baseline candles of that symbol are not flagged volatile, and a flagged
\* baseline sends the pipeline to the next symbol with nothing confirmed.
C3_VolatilityVeto ==
    [][/\ pc' \in {"strategy", "signal", "notify"} =>
             ~selectSmartTimeframes(analysisData').isVolatile
       /\ (pc = "select" /\ selectSmartTimeframes(analysisData).isVolatile) =>
             /\ pc' = "symbol"
             /\ symIdx' = symIdx + 1
             /\ detectedSignals' = detectedSignals]_vars

\* A flagged baseline that holds a confluence runAllStrategies would emit
C3_Witness ==
    /\ pc = "select"
    /\ Len(analysisData) >= 200
    /\ selectSmartTimeframes(analysisData).isVolatile
    /\ runAllStrategies(symbol, "15m", analysisData, 1).signals # <<>>

WithoutStatus(s) == [f \in DOMAIN s \ {"status"} |-> s[f]]

\* C25: a signal is created PENDING; the status of the signal handed to the
\* notifier becomes SENT exactly when the notifier reports success and FAILED
\* exactly when it reports failure; without a configured notifier it stays
\* PENDING; a status of SENT or FAILED is never changed again, and no other
\* field changes after the hand-off.
C25_StatusLifecycle ==
    /\ [](/\ \A i \in 1..Len(strategyResults) :
                strategyResults[i].status = "PENDING"
          /\ pc \in {"notify", "notified"} =>
                detectedSignals[Len(detectedSignals)].status = "PENDING"
          /\ ~config.telegram =>
                /\ \A i \in 1..Len(detectedSignals) :
                      detectedSignals[i].status = "PENDING"
                /\ \A i \in 1..Len(signals) : signals[i].status = "PENDING")
    /\ [][/\ Len(detectedSignals') > Len(detectedSignals) =>
                detectedSignals'[Len(detectedSignals')].status = "PENDING"
          /\ \A i \in 1..Len(detectedSignals) :
                i <= Len(detectedSignals') =>
                   IF pc = "notified" /\ i = Len(detectedSignals)
                   THEN /\ WithoutStatus(detectedSignals'[i])
                              = WithoutStatus(detectedSignals[i])
                        /\ detectedSignals'[i].status = "SENT" <=> success = TRUE
                        /\ detectedSignals'[i].status = "FAILED" <=> success = FALSE
                   ELSE detectedSignals'[i] = detectedSignals[i]
          /\ signals' \in {signals, detectedSignals \o signals, <<>>}]_vars

\* a scan that ended with one alert sent and one failed
C25_Witness ==
    /\ pc = "idle"
    /\ \E i \in 1..Len(signals) : signals[i].status = "SENT"
    /\ \E i \in 1..Len(signals) : signals[i].status = "FAILED"

\* C26: no rejection stops a scan.  After an insufficient history, a
\* volatility veto, a confluence rejection, a risk rejection or a notifier
\* failure the pipeline goes on with the next signal, timeframe or symbol;
\* the timeframe loop and the symbol loop are left only when they are
\* through; and every run ends with isRunning reset to false, also the run
\* whose first step throws.
C26_ScanGoesOn ==
    /\ [][/\ (pc = "select"
                /\ (Len(analysisData) < 200
                      \/ selectSmartTimeframes(analysisData).isVolatile)) =>
                (pc' = "symbol" /\ symIdx' = symIdx + 1)
          /\ (pc = "strategy" /\ Len(klines) < 200) =>
                (pc' = "timeframe" /\ tfIdx' = tfIdx + 1 /\ symIdx' = symIdx)
          /\ (pc = "strategy" /\ Len(klines) >= 200) =>
                (pc' = "signal" /\ tfIdx' = tfIdx /\ symIdx' = symIdx)
          /\ (pc = "signal" /\ sigIdx > Len(strategyResults)) =>
                (pc' = "timeframe" /\ tfIdx' = tfIdx + 1 /\ symIdx' = symIdx)
          /\ (pc = "signal" /\ sigIdx <= Len(strategyResults)
                /\ ~RiskChecksPass(strategyResults[sigIdx])) =>
                (pc' = "signal" /\ sigIdx' = sigIdx + 1 /\ tfIdx' = tfIdx)
          /\ (pc = "notified" /\ success = FALSE) =>
                (pc' = "signal" /\ sigIdx' = sigIdx + 1 /\ tfIdx' = tfIdx)
          /\ (pc = "timeframe" /\ pc' = "symbol") =>
                (tfIdx = Len(timeframes) + 1 /\ symIdx' = symIdx + 1)
          /\ pc' = "finish" => symIdx' = Len(config.symbols) + 1]_vars
    /\ [](isRunning => <>(~isRunning))

\* the scan is at the second symbol after a risk rejection or a failed alert
\* at the first
C26_Witness ==
    /\ pc = "fetchAnalysis"
    /\ symIdx = 2
    /\ \E i \in 1..Len(detectedSignals) : detectedSignals[i].status = "FAILED"

\* C30: at most one scan is in progress: the scan is at a step only while
\* isRunning is set, and while isRunning is set no step starts a scan (puts
\* the scan at the head of the symbol loop with the first symbol or empties
\* detectedSignals), so an invocation of runPipeline during a run fetches,
\* analyses and notifies nothing.
C30_SingleRun ==
    /\ [](pc # "idle" => isRunning)
    /\ [][isRunning =>
            /\ ~(pc' = "symbol" /\ symIdx' = 1)
            /\ (isRunning' => symIdx' >= symIdx)
            /\ (detectedSignals # <<>> /\ isRunning' => detectedSignals' # <<>>)]_vars

\* a run suspended at the await of the notifier for a candidate of its second
\* symbol, where a click can be handled
C30_Witness ==
    /\ isRunning
    /\ pc = "notify"
    /\ symIdx = 2
    /\ Len(detectedSignals) >= 2

=============================================================================
